---- MODULE Spec2Model ----
(***************************************************************************)
(* Model of the interview sessions of Interviewer-Ai, the real-time voice  *)
(* session first:                                                          *)
(* LiveInterviewRoom (src/unnamed/part_000, lines 57-652) mounted by App   *)
(* (src/src/App.tsx).  One live session is followed from the first render  *)
(* of LiveInterviewRoom, whose mount effect has started initInterview and  *)
(* is waiting for getUserMedia.                                             *)
(*                                                                         *)
(* Times are milliseconds on the AudioContext clock.  A ref that holds     *)
(* null is the string "null".                                              *)
(***************************************************************************)
EXTENDS Integers, Sequences, FiniteSets, TLC

VARIABLES
    appState,           \* App: state                       (App.tsx:13)
    mounted,            \* LiveInterviewRoom is mounted     (App.tsx:137-149)
    isConnected,        \* useState                         (part_000:69)
    isConnecting,       \*                                  (part_000:70)
    isInterrupted,      \*                                  (part_000:71)
    transcript,         \*                                  (part_000:72)
    isUserSpeaking,     \*                                  (part_000:73)
    isAISpeaking,       \*                                  (part_000:74)
    error,              \*                                  (part_000:76)
    audioContextRef,    \* useRef                           (part_000:78)
    sessionRef,         \*                                  (part_000:80)
    streamRef,          \*                                  (part_000:81)
    nextStartTimeRef,   \*                                  (part_000:82)
    activeSourcesRef,   \* ids of the sources in the list   (part_000:83)
    initPc,             \* where initInterview stands       (part_000:87-187)
    micPc,              \* where startMicStreaming stands   (part_000:206-241)
    mic,                \* the MediaStream's tracks
    ctx,                \* the AudioContext's state
    ws,                 \* the transport connection
    now,                \* audioContext.currentTime
    sources,            \* every AudioBufferSourceNode created, by id
    stopAlls,           \* number of stopAllAudio calls so far
    fragLog,            \* text fragments handled so far, in order
    framesSent,         \* sendRealtimeInput calls so far
    completions,        \* the onComplete calls so far
    volume,             \* useState, in hundredths             (part_000:75)
    gainNodeRef,        \* useRef                              (part_000:79)
    gainValue,          \* gain.value of the GainNode, in hundredths
    dropped,            \* playAudioChunk calls that threw while decoding
    framesCaptured,     \* onaudioprocess calls made while connected
    inputData,          \* a captured buffer: numerators of its samples
    pcmData,            \* its Int16Array encoding
    floatData,          \* the samples decoded from pcmData
    releases,           \* close() / stop() calls made by handleEndInterview
    chatMounted,        \* InterviewRoom is mounted           (App.tsx:122-135)
    questions,          \* InterviewRoom: questions.length    (part_000:666)
    currentQuestionIndex, \* useState                         (part_000:667)
    userAnswer,         \*                                    (part_000:668)
    history,            \*                                    (part_000:669)
    isProcessing,       \*                                    (part_000:671)
    submits,            \* handleAnswerSubmit calls, by id     (part_000:748-780)
    timers,             \* pending setTimeout callbacks        (part_000:776)
    chatCompletions     \* the onComplete calls of InterviewRoom so far

appVars   == <<appState, mounted>>
stateVars == <<isConnected, isConnecting, isInterrupted, transcript,
               isUserSpeaking, error>>
refVars   == <<audioContextRef, sessionRef, streamRef>>
audioVars == <<nextStartTimeRef, activeSourcesRef, isAISpeaking, sources, stopAlls,
               dropped>>
envVars   == <<mic, ctx, ws>>
volumeVars == <<volume, gainNodeRef, gainValue>>
pcmVars   == <<inputData, pcmData, floatData>>
chatVars  == <<chatMounted, questions, currentQuestionIndex, userAnswer, history,
               isProcessing, submits, timers, chatCompletions>>
vars == <<appVars, stateVars, refVars, audioVars, envVars,
          initPc, micPc, now, fragLog, framesSent, completions,
          framesCaptured, volumeVars, pcmVars, releases, chatVars>>

----------------------------------------------------------------------------
(* Bounds of the exploration.  Spec follows the whole life of a session with
   few messages; SpecAudio, SpecText and SpecDecode follow a session that
   connects, with more audio chunks, more text fragments, and chunks that do
   not decode; SpecVolume adds the volume slider; SpecPcm applies the PCM
   encoding and decoding to one sample; SpecChat follows a chat-mode
   interview in InterviewRoom. *)

MaxEndCalls    == 2     \* End Interview is clicked while fewer calls are logged
MaxFrames      == 2     \* captured frames sent in one run
MaxInterrupts  == 1     \* interruption signals delivered in one run
SessionChunks  == 1     \* Spec: audio chunks delivered in one run
SessionFrags   == 1     \* Spec: text fragments delivered in one run
SessionTicks   == 1     \* Spec: clock advances in one run
MaxChunks      == 2     \* SpecAudio: audio chunks delivered in one run
MaxTicks       == 5     \* SpecAudio: clock advances in one run
MaxFrags       == 4     \* SpecText: text fragments delivered in one run
MaxQuestions   == 2     \* SpecChat: questions.length is at most this
MaxAnswers     == 3     \* SpecChat: answers accepted in one run
SampleDen      == 50    \* SpecPcm: a sample is a multiple of 1 / SampleDen
DecodeChunks   == 1     \* SpecDecode: decodable chunks delivered in one run
DecodeFrags    == 2     \* SpecDecode: text fragments delivered in one run
MaxDrops       == 1     \* SpecDecode: undecodable chunks delivered in one run

(* Program constants *)

LookaheadMs    == 100   \* startTime = now + 0.1
TailMarginMs   == 50    \* currentTime >= nextStartTime - 0.05
InitialVolume  == 80    \* useState(0.8)
UnityGain      == 100   \* gain.value of a GainNode as createGain returns it
Int16Max       == 32767 \* 0x7FFF

(* Inputs *)

TickMs         == 100
Durations      == {40, 500}          \* audioBuffer.duration of a chunk, ms
Undecodable    == 0 - 1              \* inlineData.data that does not decode
ModelTexts     == {"Hello", " there"}
UserTexts      == {"Hi"}
Answers        == {"", " ", "My answer"}   \* contents of the answer field
Volumes        == {0, 30, 100}       \* slider positions, in hundredths
Samples        == (0 - 2 * SampleDen)..(2 * SampleDen)   \* samples in [-2, 2]

NoError         == "null"
MicDenied       == "Microphone access was denied"
InitFailed      == "Failed to initialize the interview"
ConnectionLost  == "The AI connection was lost"
StreamingFailed == "An error occurred while streaming your voice"

----------------------------------------------------------------------------
(* Helpers *)

Last(s) == s[Len(s)]
Front(s) == SubSeq(s, 1, Len(s) - 1)
Range(s) == {s[i] : i \in DOMAIN s}

RECURSIVE Without(_, _)
\* Array.prototype.filter(s => s !== source)
Without(s, x) ==
    IF s = <<>> THEN <<>>
    ELSE IF Head(s) = x THEN Without(Tail(s), x)
         ELSE <<Head(s)>> \o Without(Tail(s), x)

----------------------------------------------------------------------------
(* Initial state: App is in 'live-interview', LiveInterviewRoom has rendered
   once and its mount effect has called initInterview, which waits for
   getUserMedia. *)

\* the state, the refs and the surroundings of a LiveInterviewRoom in which
\* nothing has happened
NoSession ==
    /\ isConnected = FALSE
    /\ isConnecting = TRUE
    /\ isInterrupted = FALSE
    /\ transcript = <<>>
    /\ isUserSpeaking = FALSE
    /\ isAISpeaking = FALSE
    /\ error = NoError
    /\ audioContextRef = "null"
    /\ sessionRef = "null"
    /\ streamRef = "null"
    /\ nextStartTimeRef = 0
    /\ activeSourcesRef = <<>>
    /\ micPc = "none"
    /\ mic = "none"
    /\ ctx = "none"
    /\ ws = "none"
    /\ now = 0
    /\ sources = <<>>
    /\ stopAlls = 0
    /\ fragLog = <<>>
    /\ framesSent = 0
    /\ completions = <<>>
    /\ volume = InitialVolume
    /\ gainNodeRef = "null"
    /\ gainValue = UnityGain
    /\ dropped = 0
    /\ framesCaptured = 0
    /\ releases = [session |-> 0, stream |-> 0, context |-> 0]

\* no InterviewRoom is mounted
NoChat ==
    /\ chatMounted = FALSE
    /\ questions = 0
    /\ currentQuestionIndex = 0
    /\ userAnswer = ""
    /\ history = <<>>
    /\ isProcessing = FALSE
    /\ submits = <<>>
    /\ timers = <<>>
    /\ chatCompletions = <<>>

InitRoom ==
    /\ appState = "live-interview"
    /\ mounted = TRUE
    /\ initPc = "getUserMedia"
    /\ NoSession
    /\ NoChat

Init ==
    /\ InitRoom
    /\ inputData = <<>>
    /\ pcmData = <<>>
    /\ floatData = <<>>

----------------------------------------------------------------------------
(* Values captured by the closures of the mount render.  The mount effect has
   an empty dependency list, so the callbacks given to ai.live.connect, the
   cleanup, and the startMicStreaming and handleEndInterview they call are
   those of the first render and read that render's state constants. *)

\* isConnected as read by processor.onaudioprocess
CapturedIsConnected == FALSE

\* transcript as read by handleEndInterview when called from onclose or cleanup
CapturedTranscript == <<>>

\* volume as read by initInterview
CapturedVolume == InitialVolume

----------------------------------------------------------------------------
(* Transcript *)

\* setTranscript without the check of the last entry's role
setTranscript_AlwaysAppend(prev, role, text) ==
    prev \o <<[role |-> role, text |-> text]>>

\* setTranscript extending the latest entry of the role, wherever it stands
setTranscript_LatestOfRole(prev, role, text) ==
    LET own == {i \in DOMAIN prev : prev[i].role = role}
    IN IF own = {}
       THEN prev \o <<[role |-> role, text |-> text]>>
       ELSE LET k == CHOOSE i \in own : \A j \in own : j <= i
            IN [prev EXCEPT ![k].text = prev[k].text \o text]

\* the updater passed to setTranscript for a fragment of the given role
setTranscript(prev, role, text) ==
    IF prev /= <<>> /\ Last(prev).role = role
    THEN Front(prev) \o <<[role |-> role, text |-> Last(prev).text \o text]>>
    ELSE prev \o <<[role |-> role, text |-> text]>>

----------------------------------------------------------------------------
(* Playback scheduler.  The handlers below act on a record h of the values an
   onmessage call reads and writes:
     next, active, speaking  nextStartTimeRef, activeSourcesRef, isAISpeaking
     srcs, stops, drops      sources, stopAlls, dropped
     tr, log, intr           transcript, fragLog, isInterrupted            *)

\* playAudioChunk ignoring the cursor
ScheduledStart_IgnoresCursor(cursor, t) == t + LookaheadMs

\* startTime chosen by playAudioChunk
ScheduledStart(cursor, t) ==
    IF cursor < t THEN t + LookaheadMs ELSE cursor

\* playAudioChunk for a chunk that decodes to d ms of audio, or that does not
\* decode (d = Undecodable; a zero-length chunk is one).  atob, the Int16Array
\* view and createBuffer throw before anything is scheduled, and the throw
\* rejects the promise of this async function, which nobody awaits.
playAudioChunk(h, d) ==
    IF audioContextRef = "null" THEN h
    ELSE IF d = Undecodable THEN [h EXCEPT !.drops = h.drops + 1]
    ELSE LET startTime == ScheduledStart(h.next, now)
             id == Len(h.srcs) + 1
             source == [at |-> now, start |-> startTime, end |-> startTime + d,
                        epoch |-> h.stops, drops |-> h.drops,
                        stopped |-> FALSE, ended |-> FALSE]
         IN [h EXCEPT !.next = startTime + d,
                      !.active = Append(h.active, id),
                      !.srcs = Append(h.srcs, source),
                      !.speaking = TRUE]

\* stopAllAudio without nextStartTimeRef.current = 0
stopAllAudio_KeepsCursor(h) ==
    [h EXCEPT !.srcs = [i \in DOMAIN h.srcs |->
                          IF i \in Range(h.active) /\ ~h.srcs[i].ended
                          THEN [h.srcs[i] EXCEPT !.stopped = TRUE]
                          ELSE h.srcs[i]],
              !.active = <<>>,
              !.speaking = FALSE,
              !.stops = h.stops + 1]

stopAllAudio(h) ==
    [h EXCEPT !.srcs = [i \in DOMAIN h.srcs |->
                          IF i \in Range(h.active) /\ ~h.srcs[i].ended
                          THEN [h.srcs[i] EXCEPT !.stopped = TRUE]
                          ELSE h.srcs[i]],
              !.active = <<>>,
              !.next = 0,
              !.speaking = FALSE,
              !.stops = h.stops + 1]

\* whether source.onended clears isAISpeaking
TailReached(t, cursor) == t >= cursor - TailMarginMs

----------------------------------------------------------------------------
(* onmessage *)

textFragment(h, role, text) ==
    IF text = "" THEN h
    ELSE [h EXCEPT !.tr = setTranscript(h.tr, role, text),
                   !.log = Append(h.log, [role |-> role, text |-> text])]

RECURSIVE modelTurn_DecodeThrows(_, _)
\* the loop over the parts with a playAudioChunk that is not async: a chunk
\* that does not decode throws out of onmessage
modelTurn_DecodeThrows(h, parts) ==
    IF parts = <<>> THEN h
    ELSE LET part == Head(parts)
             h1 == IF part.audio /= 0 THEN playAudioChunk(h, part.audio) ELSE h
             h2 == textFragment(h1, "model", part.text)
         IN IF part.audio = Undecodable /\ audioContextRef /= "null" THEN h
            ELSE modelTurn_DecodeThrows(h2, Tail(parts))

RECURSIVE modelTurn(_, _)
modelTurn(h, parts) ==
    IF parts = <<>> THEN h
    ELSE LET part == Head(parts)
             h1 == IF part.audio /= 0 THEN playAudioChunk(h, part.audio) ELSE h
             h2 == textFragment(h1, "model", part.text)
         IN modelTurn(h2, Tail(parts))

RECURSIVE userTurn(_, _)
userTurn(h, parts) ==
    IF parts = <<>> THEN h
    ELSE userTurn(textFragment(h, "user", Head(parts).text), Tail(parts))

interrupted(h, flag) ==
    IF flag THEN stopAllAudio([h EXCEPT !.intr = TRUE]) ELSE h

onmessage(h, m) ==
    interrupted(userTurn(modelTurn(h, m.modelTurn), m.userTurn), m.interrupted)

\* messages of at most one model part and one user part
MessagesOf(durations, modelTexts, userTexts) ==
    [modelTurn   : {<<>>} \cup {<<p>> : p \in [audio : {0} \cup durations,
                                                text : {""} \cup modelTexts]},
     userTurn    : {<<>>} \cup {<<p>> : p \in [text : {""} \cup userTexts]},
     interrupted : BOOLEAN]

\* Spec: a message carries one audio chunk or one model text, with or without
\* the interruption signal
SessionMessages == MessagesOf({40}, {}, {}) \cup MessagesOf({}, {"Hello"}, {})
AudioMessages   == MessagesOf(Durations, {}, {})
TextMessages    == MessagesOf({}, ModelTexts, UserTexts)
\* SpecDecode: a model part carries a chunk that decodes, one that does not,
\* a text, or a chunk and a text
DecodeMessages  == MessagesOf({Undecodable, 40}, {"Hello"}, {})

AudioParts(m) == {i \in DOMAIN m.modelTurn : m.modelTurn[i].audio > 0}
TextParts(m) == {i \in DOMAIN m.modelTurn : m.modelTurn[i].text /= ""}
UserTextParts(m) == {i \in DOMAIN m.userTurn : m.userTurn[i].text /= ""}
BadParts(m) == {i \in DOMAIN m.modelTurn : m.modelTurn[i].audio = Undecodable}

Handling ==
    [next |-> nextStartTimeRef, active |-> activeSourcesRef,
     speaking |-> isAISpeaking, srcs |-> sources, stops |-> stopAlls,
     drops |-> dropped,
     tr |-> transcript, log |-> fragLog, intr |-> isInterrupted]

\* the run stays within the bounds when m is delivered
Within(m, maxChunks, maxFrags) ==
    /\ Len(sources) + Cardinality(AudioParts(m)) <= maxChunks
    /\ Len(fragLog) + Cardinality(TextParts(m)) + Cardinality(UserTextParts(m))
         <= maxFrags
    /\ stopAlls + (IF m.interrupted THEN 1 ELSE 0) <= MaxInterrupts

\* the run stays within the bound on undecodable chunks when m is delivered
WithinDrops(m, maxDrops) ==
    dropped + Cardinality(BadParts(m)) <= maxDrops

\* callbacks.onmessage.  The callbacks outlive the component: a state setter
\* called after the unmount is written to the variable all the same, where
\* nothing renders it any more.
Onmessage(m) ==
    /\ ws = "open"
    /\ LET h == onmessage(Handling, m)
       IN /\ nextStartTimeRef' = h.next
          /\ activeSourcesRef' = h.active
          /\ isAISpeaking' = h.speaking
          /\ sources' = h.srcs
          /\ stopAlls' = h.stops
          /\ dropped' = h.drops
          /\ transcript' = h.tr
          /\ fragLog' = h.log
          /\ isInterrupted' = h.intr
    /\ UNCHANGED <<appVars, isConnected, isConnecting, isUserSpeaking, error,
                   refVars, envVars, initPc, micPc, now, framesSent, completions,
                   framesCaptured, volumeVars, pcmVars,
                   releases, chatVars>>

\* source.onended of source i
Onended(i) ==
    /\ i \in DOMAIN sources
    /\ ~sources[i].ended
    /\ sources[i].stopped \/ now >= sources[i].end
    /\ sources' = [sources EXCEPT ![i].ended = TRUE]
    /\ activeSourcesRef' = Without(activeSourcesRef, i)
    /\ isAISpeaking' = IF audioContextRef /= "null" /\ TailReached(now, nextStartTimeRef)
                       THEN FALSE ELSE isAISpeaking
    /\ UNCHANGED <<appVars, stateVars, refVars, envVars, nextStartTimeRef, stopAlls,
                   dropped, initPc, micPc, now, fragLog, framesSent, completions,
                   framesCaptured, volumeVars, pcmVars,
                   releases, chatVars>>

\* the AudioContext clock advances
Tick(maxTicks) ==
    /\ ctx = "running"
    /\ now + TickMs <= maxTicks * TickMs
    /\ now' = now + TickMs
    /\ UNCHANGED <<appVars, stateVars, refVars, audioVars, envVars,
                   initPc, micPc, fragLog, framesSent, completions,
                   framesCaptured, volumeVars, pcmVars,
                   releases, chatVars>>

----------------------------------------------------------------------------
(* initInterview *)

\* initInterview calling startMicStreaming as soon as the context exists
GetUserMediaResolved_StartsCapture(ctxState) ==
    /\ initPc = "getUserMedia"
    /\ streamRef' = "stream"
    /\ mic' = "live"
    /\ audioContextRef' = "ctx"
    /\ ctx' = ctxState
    /\ gainNodeRef' = "gain"
    /\ gainValue' = CapturedVolume
    /\ ws' = "opening"
    /\ initPc' = "connect"
    /\ micPc' = IF ctxState = "suspended" THEN "resuming" ELSE "streaming"
    /\ UNCHANGED <<appVars, stateVars, sessionRef, audioVars, now,
                   fragLog, framesSent, completions,
                   framesCaptured, volume, pcmVars,
                   releases, chatVars>>

\* getUserMedia resolves; the AudioContext and the GainNode are created and
\* ai.live.connect is called
GetUserMediaResolved(ctxState) ==
    /\ initPc = "getUserMedia"
    /\ streamRef' = "stream"
    /\ mic' = "live"
    /\ audioContextRef' = "ctx"
    /\ ctx' = ctxState
    /\ gainNodeRef' = "gain"
    /\ gainValue' = CapturedVolume
    /\ ws' = "opening"
    /\ initPc' = "connect"
    /\ UNCHANGED <<appVars, stateVars, sessionRef, audioVars, micPc, now,
                   fragLog, framesSent, completions,
                   framesCaptured, volume, pcmVars,
                   releases, chatVars>>

\* initInterview creating the AudioContext before it asks for the microphone
GetUserMediaRejected_AfterContext(name) ==
    /\ initPc = "getUserMedia"
    /\ error' = IF name \in {"NotAllowedError", "PermissionDeniedError"}
                THEN MicDenied ELSE InitFailed
    /\ isConnecting' = FALSE
    /\ initPc' = "failed"
    /\ audioContextRef' = "ctx"
    /\ ctx' = "running"
    /\ UNCHANGED <<appVars, isConnected, isInterrupted, transcript, isUserSpeaking,
                   sessionRef, streamRef, audioVars, mic, ws, micPc, now,
                   fragLog, framesSent, completions,
                   framesCaptured, volumeVars, pcmVars,
                   releases, chatVars>>

\* getUserMedia rejects: the catch block
GetUserMediaRejected(name) ==
    /\ initPc = "getUserMedia"
    /\ error' = IF name \in {"NotAllowedError", "PermissionDeniedError"}
                THEN MicDenied ELSE InitFailed
    /\ isConnecting' = FALSE
    /\ initPc' = "failed"
    /\ UNCHANGED <<appVars, isConnected, isInterrupted, transcript, isUserSpeaking,
                   refVars, audioVars, envVars, micPc, now,
                   fragLog, framesSent, completions,
                   framesCaptured, volumeVars, pcmVars,
                   releases, chatVars>>

\* getUserMedia resolves and the AudioContext constructor throws: the catch block
AudioContextFailed ==
    /\ initPc = "getUserMedia"
    /\ streamRef' = "stream"
    /\ mic' = "live"
    /\ error' = InitFailed
    /\ isConnecting' = FALSE
    /\ initPc' = "failed"
    /\ UNCHANGED <<appVars, isConnected, isInterrupted, transcript, isUserSpeaking,
                   audioContextRef, sessionRef, audioVars, ctx, ws, micPc, now,
                   fragLog, framesSent, completions,
                   framesCaptured, volumeVars, pcmVars,
                   releases, chatVars>>

\* micPc after startMicStreaming has run to its first await or to its end
startMicStreaming ==
    IF audioContextRef = "null" \/ streamRef = "null" THEN micPc
    ELSE IF ctx = "suspended" THEN "resuming"
    ELSE "streaming"

\* callbacks.onopen
Onopen ==
    /\ ws = "opening"
    /\ ws' = "open"
    /\ isConnected' = TRUE
    /\ isConnecting' = FALSE
    /\ micPc' = startMicStreaming
    /\ UNCHANGED <<appVars, isInterrupted, transcript, isUserSpeaking, error,
                   refVars, audioVars, mic, ctx, initPc, now,
                   fragLog, framesSent, completions,
                   framesCaptured, volumeVars, pcmVars,
                   releases, chatVars>>

\* startMicStreaming continues after await audioContextRef.current.resume()
MicResumed ==
    /\ micPc = "resuming"
    /\ IF audioContextRef = "null" \/ streamRef = "null" \/ ctx = "closed"
       THEN /\ error' = StreamingFailed
            /\ micPc' = "failed"
            /\ ctx' = ctx
       ELSE /\ error' = error
            /\ micPc' = "streaming"
            /\ ctx' = "running"
    /\ UNCHANGED <<appVars, isConnected, isConnecting, isInterrupted, transcript,
                   isUserSpeaking, refVars, audioVars, mic, ws, initPc, now,
                   fragLog, framesSent, completions,
                   framesCaptured, volumeVars, pcmVars,
                   releases, chatVars>>

\* ai.live.connect resolves: sessionRef.current = session
ConnectResolved ==
    /\ initPc = "connect"
    /\ ws \in {"open", "closing", "closed"}
    /\ sessionRef' = "session"
    /\ initPc' = "done"
    /\ UNCHANGED <<appVars, stateVars, audioContextRef, streamRef, audioVars,
                   envVars, micPc, now, fragLog, framesSent, completions,
                   framesCaptured, volumeVars, pcmVars,
                   releases, chatVars>>

\* ai.live.connect rejects: the catch block
ConnectRejected ==
    /\ initPc = "connect"
    /\ ws = "opening"
    /\ ws' = "failed"
    /\ error' = InitFailed
    /\ isConnecting' = FALSE
    /\ initPc' = "failed"
    /\ UNCHANGED <<appVars, isConnected, isInterrupted, transcript, isUserSpeaking,
                   refVars, audioVars, mic, ctx, micPc, now,
                   fragLog, framesSent, completions,
                   framesCaptured, volumeVars, pcmVars,
                   releases, chatVars>>

\* callbacks.onerror
Onerror ==
    /\ ws \in {"opening", "open"}
    /\ error' = ConnectionLost
    /\ isConnecting' = FALSE
    /\ UNCHANGED <<appVars, isConnected, isInterrupted, transcript, isUserSpeaking,
                   refVars, audioVars, envVars, initPc, micPc, now,
                   fragLog, framesSent, completions,
                   framesCaptured, volumeVars, pcmVars,
                   releases, chatVars>>

\* processor.onaudioprocess for one captured buffer; loud: its mean absolute
\* amplitude exceeds 0.01
Onaudioprocess(loud) ==
    /\ micPc = "streaming"
    /\ ctx = "running"
    /\ framesSent < MaxFrames
    /\ framesCaptured < MaxFrames
    /\ IF sessionRef /= "null" /\ CapturedIsConnected
       THEN /\ isUserSpeaking' = loud
            /\ framesSent' = framesSent + 1
       ELSE UNCHANGED <<isUserSpeaking, framesSent>>
    /\ framesCaptured' = IF sessionRef /= "null" /\ isConnected
                         THEN framesCaptured + 1 ELSE framesCaptured
    /\ UNCHANGED <<appVars, isConnected, isConnecting, isInterrupted, transcript,
                   error, refVars, audioVars, envVars, initPc, micPc, now,
                   fragLog, completions, volumeVars, pcmVars,
                   releases, chatVars>>

----------------------------------------------------------------------------
(* Teardown and completion *)

\* App.handleInterviewComplete: the state it leaves App in
handleInterviewComplete(finalHistory) == "feedback"

\* the three refs as handleEndInterview finds them
HeldRefs ==
    [session |-> sessionRef, stream |-> streamRef, context |-> audioContextRef]

\* the three refs after lines 308-319 of handleEndInterview
ReleasedRefs ==
    [session |-> "null", stream |-> "null", context |-> "null"]

\* one onComplete call: its argument, and the refs at the moment of the call
Completion(arg, refs) == [history |-> arg, refs |-> refs]

\* 1 if the ref holds an object, which handleEndInterview then closes or stops
Held(ref) == IF ref /= "null" THEN 1 ELSE 0

\* handleEndInterview without the assignments of null to the refs
handleEndInterview_KeepsRefs(arg, w) ==
    /\ ws' = IF sessionRef /= "null" /\ w \in {"opening", "open"} THEN "closing" ELSE w
    /\ sessionRef' = sessionRef
    /\ mic' = IF streamRef /= "null" THEN "stopped" ELSE mic
    /\ streamRef' = streamRef
    /\ ctx' = IF audioContextRef /= "null" THEN "closed" ELSE ctx
    /\ audioContextRef' = audioContextRef
    /\ isConnected' = FALSE
    /\ completions' = Append(completions, Completion(arg, HeldRefs))
    /\ releases' = [session |-> releases.session + Held(sessionRef),
                    stream  |-> releases.stream + Held(streamRef),
                    context |-> releases.context + Held(audioContextRef)]
    /\ appState' = handleInterviewComplete(arg)

\* handleEndInterview calling onComplete before it releases anything
handleEndInterview_CompletesFirst(arg, w) ==
    /\ ws' = IF sessionRef /= "null" /\ w \in {"opening", "open"} THEN "closing" ELSE w
    /\ sessionRef' = ReleasedRefs.session
    /\ mic' = IF streamRef /= "null" THEN "stopped" ELSE mic
    /\ streamRef' = ReleasedRefs.stream
    /\ ctx' = IF audioContextRef /= "null" THEN "closed" ELSE ctx
    /\ audioContextRef' = ReleasedRefs.context
    /\ isConnected' = FALSE
    /\ completions' = Append(completions, Completion(arg, HeldRefs))
    /\ releases' = [session |-> releases.session + Held(sessionRef),
                    stream  |-> releases.stream + Held(streamRef),
                    context |-> releases.context + Held(audioContextRef)]
    /\ appState' = handleInterviewComplete(arg)

\* handleEndInterview called with the transcript its closure holds, while the
\* transport is in state w.  onComplete is its last statement and runs with
\* the refs already cleared.
handleEndInterview(arg, w) ==
    /\ ws' = IF sessionRef /= "null" /\ w \in {"opening", "open"} THEN "closing" ELSE w
    /\ sessionRef' = ReleasedRefs.session
    /\ mic' = IF streamRef /= "null" THEN "stopped" ELSE mic
    /\ streamRef' = ReleasedRefs.stream
    /\ ctx' = IF audioContextRef /= "null" THEN "closed" ELSE ctx
    /\ audioContextRef' = ReleasedRefs.context
    /\ isConnected' = FALSE
    /\ completions' = Append(completions, Completion(arg, ReleasedRefs))
    /\ releases' = [session |-> releases.session + Held(sessionRef),
                    stream  |-> releases.stream + Held(streamRef),
                    context |-> releases.context + Held(audioContextRef)]
    /\ appState' = handleInterviewComplete(arg)

\* the End Interview button
EndInterview ==
    /\ mounted
    /\ Len(completions) < MaxEndCalls
    /\ handleEndInterview(transcript, ws)
    /\ UNCHANGED <<mounted, isConnecting, isInterrupted, transcript, isUserSpeaking,
                   error, audioVars, initPc, micPc, now, fragLog, framesSent,
                   framesCaptured, volumeVars, pcmVars, chatVars>>

\* callbacks.onclose
Onclose ==
    /\ ws \in {"open", "closing"}
    /\ handleEndInterview(CapturedTranscript, "closed")
    /\ UNCHANGED <<mounted, isConnecting, isInterrupted, transcript, isUserSpeaking,
                   error, audioVars, initPc, micPc, now, fragLog, framesSent,
                   framesCaptured, volumeVars, pcmVars, chatVars>>

\* App leaves 'live-interview': LiveInterviewRoom unmounts, the effect cleanup runs
Unmount ==
    /\ mounted
    /\ appState /= "live-interview"
    /\ mounted' = FALSE
    /\ handleEndInterview(CapturedTranscript, ws)
    /\ UNCHANGED <<isConnecting, isInterrupted, transcript, isUserSpeaking,
                   error, audioVars, initPc, micPc, now, fragLog, framesSent,
                   framesCaptured, volumeVars, pcmVars, chatVars>>

\* App.handleReset (the logo in the navigation bar)
HandleReset ==
    /\ appState' = "input"
    /\ UNCHANGED <<mounted, stateVars, refVars, audioVars, envVars,
                   initPc, micPc, now, fragLog, framesSent, completions,
                   framesCaptured, volumeVars, pcmVars,
                   releases, chatVars>>

----------------------------------------------------------------------------

Next ==
    \/ \E c \in {"running", "suspended"} : GetUserMediaResolved(c)
    \/ \E n \in {"NotAllowedError", "NotFoundError"} : GetUserMediaRejected(n)
    \/ AudioContextFailed
    \/ Onopen
    \/ MicResumed
    \/ ConnectResolved
    \/ ConnectRejected
    \/ Onerror
    \/ \E m \in SessionMessages :
          Within(m, SessionChunks, SessionFrags) /\ Onmessage(m)
    \/ \E i \in 1..SessionChunks : Onended(i)
    \/ Tick(SessionTicks)
    \/ \E l \in BOOLEAN : Onaudioprocess(l)
    \/ EndInterview
    \/ Onclose
    \/ Unmount
    \/ HandleReset

Spec == Init /\ [][Next]_vars

\* a session that connects, receiving audio chunks and interruptions, and is
\* ended once initInterview has completed; End Interview is clicked once
NextAudio ==
    \/ GetUserMediaResolved("running")
    \/ Onopen
    \/ ConnectResolved
    \/ \E m \in AudioMessages : Within(m, MaxChunks, 0) /\ Onmessage(m)
    \/ \E i \in 1..(MaxChunks + 1) : Onended(i)
    \/ Tick(MaxTicks)
    \/ (initPc = "done" /\ completions = <<>> /\ EndInterview)
    \/ Onclose
    \/ Unmount

SpecAudio == Init /\ [][NextAudio]_vars

\* a session that connects, receiving text fragments, and is ended once
\* initInterview has completed
NextText ==
    \/ GetUserMediaResolved("running")
    \/ Onopen
    \/ ConnectResolved
    \/ \E m \in TextMessages : Within(m, 0, MaxFrags) /\ Onmessage(m)
    \/ (initPc = "done" /\ EndInterview)
    \/ Onclose
    \/ Unmount

SpecText == Init /\ [][NextText]_vars

----------------------------------------------------------------------------
(* Volume *)

\* the slider's onChange with value v / 100, the render that follows and its
\* [volume] effect
SetVolume(v) ==
    /\ mounted
    /\ v /= volume
    /\ volume' = v
    /\ gainValue' = IF gainNodeRef /= "null" THEN v ELSE gainValue
    /\ UNCHANGED <<appVars, stateVars, refVars, audioVars, envVars,
                   initPc, micPc, now, fragLog, framesSent, completions,
                   framesCaptured, gainNodeRef, pcmVars,
                   releases, chatVars>>

\* a session in which the user moves the volume slider
NextVolume ==
    \/ GetUserMediaResolved("running")
    \/ \E v \in Volumes : SetVolume(v)
    \/ Onopen
    \/ ConnectResolved
    \/ EndInterview
    \/ Onclose
    \/ Unmount

SpecVolume == Init /\ [][NextVolume]_vars

----------------------------------------------------------------------------
(* PCM encoding of a captured buffer and decoding of a received chunk.  A
   sample is the rational n / SampleDen, held as its numerator n; a decoded
   sample is a fraction num / den. *)

Abs(x) == IF x < 0 THEN 0 - x ELSE x

\* Math.max(-1, Math.min(1, x))
Clamp(n) ==
    IF n > SampleDen THEN SampleDen
    ELSE IF n < 0 - SampleDen THEN 0 - SampleDen
    ELSE n

\* the integer part of p / q (q > 0), towards zero
Trunc(p, q) == IF p >= 0 THEN p \div q ELSE 0 - ((0 - p) \div q)

\* the value an Int16Array element takes when the integer x is stored in it
ToInt16(x) == ((x + 32768) % 65536) - 32768

\* the encoding scaled by 0x8000
Encode_ScalesBy32768(n) == ToInt16(Trunc(Clamp(n) * (Int16Max + 1), SampleDen))

\* pcmData[i] = Math.max(-1, Math.min(1, inputData[i])) * 0x7FFF
Encode(n) == ToInt16(Trunc(Clamp(n) * Int16Max, SampleDen))

\* floatData[i] = pcmData[i] / 0x7FFF
Decode(v) == [num |-> v, den |-> Int16Max]

\* the loop of onaudioprocess over the captured buffer
EncodeFrame ==
    /\ inputData /= <<>>
    /\ pcmData = <<>>
    /\ pcmData' = [i \in DOMAIN inputData |-> Encode(inputData[i])]
    /\ UNCHANGED <<appVars, stateVars, refVars, audioVars, envVars,
                   initPc, micPc, now, fragLog, framesSent, completions,
                   framesCaptured, volumeVars, inputData, floatData,
                   releases, chatVars>>

\* the loop of playAudioChunk over the received samples
DecodeFrame ==
    /\ pcmData /= <<>>
    /\ floatData = <<>>
    /\ floatData' = [i \in DOMAIN pcmData |-> Decode(pcmData[i])]
    /\ UNCHANGED <<appVars, stateVars, refVars, audioVars, envVars,
                   initPc, micPc, now, fragLog, framesSent, completions,
                   framesCaptured, volumeVars, inputData, pcmData,
                   releases, chatVars>>

\* a buffer of one sample is encoded, and the encoding is decoded
InitPcm ==
    /\ InitRoom
    /\ inputData \in {<<n>> : n \in Samples}
    /\ pcmData = <<>>
    /\ floatData = <<>>

NextPcm ==
    \/ EncodeFrame
    \/ DecodeFrame

SpecPcm == InitPcm /\ [][NextPcm]_vars

----------------------------------------------------------------------------
(* Chat mode: InterviewRoom (part_000, lines 654-894).  An entry of history is
   [role, text]; the texts are named, not spelled out. *)

Greeting   == [role |-> "model", text |-> "greeting"]
Reply      == [role |-> "model", text |-> "reply"]
Closing    == [role |-> "model", text |-> "closing"]
Answer(a)  == [role |-> "user", text |-> a]

\* String.prototype.trim on the modelled answers
Trim(a) == IF a = " " THEN "" ELSE a

\* App is in 'interviewing'; InterviewRoom has rendered once with the questions
\* App generated (none, if the response did not parse) and its mount effect
\* has put the greeting into history
InitChat ==
    /\ appState = "interviewing"
    /\ mounted = FALSE
    /\ initPc = "none"
    /\ NoSession
    /\ inputData = <<>>
    /\ pcmData = <<>>
    /\ floatData = <<>>
    /\ chatMounted = TRUE
    /\ questions \in 0..MaxQuestions
    /\ currentQuestionIndex = 0
    /\ userAnswer = ""
    /\ history = <<Greeting>>
    /\ isProcessing = FALSE
    /\ submits = <<>>
    /\ timers = <<>>
    /\ chatCompletions = <<>>

\* the answer field changes: typing, or a speech recognition result
SetUserAnswer(a) ==
    /\ chatMounted
    /\ a /= userAnswer
    /\ userAnswer' = a
    /\ UNCHANGED <<appVars, stateVars, refVars, audioVars, envVars,
                   initPc, micPc, now, fragLog, framesSent, completions,
                   framesCaptured, volumeVars, pcmVars, releases,
                   chatMounted, questions, currentQuestionIndex, history,
                   isProcessing, submits, timers, chatCompletions>>

\* handleAnswerSubmit up to its first await
HandleAnswerSubmit ==
    /\ chatMounted
    /\ Len(submits) < MaxAnswers
    /\ IF Trim(userAnswer) = "" \/ isProcessing
       THEN UNCHANGED <<userAnswer, isProcessing, history, submits>>
       ELSE /\ userAnswer' = ""
            /\ isProcessing' = TRUE
            /\ history' = Append(history, Answer(userAnswer))
            /\ submits' = Append(submits,
                   [pc |-> "getAIResponse",
                    final |-> ~(currentQuestionIndex < questions - 1),
                    newHistory |-> Append(history, Answer(userAnswer))])
    /\ UNCHANGED <<appVars, stateVars, refVars, audioVars, envVars,
                   initPc, micPc, now, fragLog, framesSent, completions,
                   framesCaptured, volumeVars, pcmVars, releases,
                   chatMounted, questions, currentQuestionIndex, timers,
                   chatCompletions>>

\* getAIResponse resolves in call k: the reply or the closing is appended and
\* speak is called
AIResponded(k) ==
    /\ k \in DOMAIN submits
    /\ submits[k].pc = "getAIResponse"
    /\ history' = Append(history, IF submits[k].final THEN Closing ELSE Reply)
    /\ currentQuestionIndex' = IF submits[k].final THEN currentQuestionIndex
                               ELSE currentQuestionIndex + 1
    /\ submits' = [submits EXCEPT ![k].pc = "speak"]
    /\ UNCHANGED <<appVars, stateVars, refVars, audioVars, envVars,
                   initPc, micPc, now, fragLog, framesSent, completions,
                   framesCaptured, volumeVars, pcmVars, releases,
                   chatMounted, questions, userAnswer, isProcessing, timers,
                   chatCompletions>>

\* getAIResponse or generateSpeech rejects in call k: handleAnswerSubmit has no
\* catch and stops there
ServiceRejected(k) ==
    /\ k \in DOMAIN submits
    /\ submits[k].pc \in {"getAIResponse", "speak"}
    /\ submits' = [submits EXCEPT ![k].pc = "failed"]
    /\ UNCHANGED <<appVars, stateVars, refVars, audioVars, envVars,
                   initPc, micPc, now, fragLog, framesSent, completions,
                   framesCaptured, volumeVars, pcmVars, releases,
                   chatMounted, questions, currentQuestionIndex, userAnswer,
                   history, isProcessing, timers, chatCompletions>>

\* speak resolves in call k: after the last question the completion timer is
\* set; isProcessing is cleared
Spoke(k) ==
    /\ k \in DOMAIN submits
    /\ submits[k].pc = "speak"
    /\ timers' = IF submits[k].final
                 THEN Append(timers, Append(submits[k].newHistory, Closing))
                 ELSE timers
    /\ isProcessing' = FALSE
    /\ submits' = [submits EXCEPT ![k].pc = "done"]
    /\ UNCHANGED <<appVars, stateVars, refVars, audioVars, envVars,
                   initPc, micPc, now, fragLog, framesSent, completions,
                   framesCaptured, volumeVars, pcmVars, releases,
                   chatMounted, questions, currentQuestionIndex, userAnswer,
                   history, chatCompletions>>

\* the 3 s timer set by handleAnswerSubmit fires: onComplete, which is
\* App.handleInterviewComplete.  No cleanup clears the timer.
TimerFired ==
    /\ timers /= <<>>
    /\ chatCompletions' = Append(chatCompletions, Head(timers))
    /\ timers' = Tail(timers)
    /\ appState' = handleInterviewComplete(Head(timers))
    /\ UNCHANGED <<mounted, stateVars, refVars, audioVars, envVars,
                   initPc, micPc, now, fragLog, framesSent, completions,
                   framesCaptured, volumeVars, pcmVars, releases,
                   chatMounted, questions, currentQuestionIndex, userAnswer,
                   history, isProcessing, submits>>

\* App leaves 'interviewing': InterviewRoom unmounts
ChatUnmount ==
    /\ chatMounted
    /\ appState /= "interviewing"
    /\ chatMounted' = FALSE
    /\ UNCHANGED <<appVars, stateVars, refVars, audioVars, envVars,
                   initPc, micPc, now, fragLog, framesSent, completions,
                   framesCaptured, volumeVars, pcmVars, releases,
                   questions, currentQuestionIndex, userAnswer, history,
                   isProcessing, submits, timers, chatCompletions>>

NextChat ==
    \/ \E a \in Answers : SetUserAnswer(a)
    \/ HandleAnswerSubmit
    \/ \E k \in 1..MaxAnswers : AIResponded(k)
    \/ \E k \in 1..MaxAnswers : ServiceRejected(k)
    \/ \E k \in 1..MaxAnswers : Spoke(k)
    \/ TimerFired
    \/ ChatUnmount
    \/ HandleReset

SpecChat == InitChat /\ [][NextChat]_vars

----------------------------------------------------------------------------
\* a session that connects and receives chunks that decode, chunks that do
\* not, and text
NextDecode ==
    \/ GetUserMediaResolved("running")
    \/ Onopen
    \/ ConnectResolved
    \/ \E m \in DecodeMessages :
          /\ Within(m, DecodeChunks, DecodeFrags)
          /\ WithinDrops(m, MaxDrops)
          /\ Onmessage(m)
    \/ \E i \in 1..DecodeChunks : Onended(i)
    \/ Tick(SessionTicks)
    \/ (initPc = "done" /\ EndInterview)
    \/ Onclose
    \/ Unmount

SpecDecode == Init /\ [][NextDecode]_vars

\* the event loop does not stop while a callback is pending
SpecFair == Spec /\ WF_vars(Next)

----------------------------------------------------------------------------
(* Derived notions used by the properties *)

\* the onopen acknowledgement has occurred
Opened == ws \in {"open", "closing", "closed"}

\* a call of handleEndInterview, from the button, onclose or the cleanup
EndCall == EndInterview \/ Onclose \/ Unmount

\* no stream, session or audio context is referenced or left open
Released ==
    /\ streamRef = "null" /\ sessionRef = "null" /\ audioContextRef = "null"
    /\ mic /= "live"
    /\ ctx \notin {"running", "suspended"}
    /\ ws \notin {"opening", "open"}

RECURSIVE RunLength(_, _)
\* length of the longest prefix of log whose fragments all have the role
RunLength(log, role) ==
    IF log = <<>> \/ Head(log).role /= role THEN 0
    ELSE 1 + RunLength(Tail(log), role)

RECURSIVE Concat(_)
\* the texts of the fragments of log, joined
Concat(log) == IF log = <<>> THEN "" ELSE Head(log).text \o Concat(Tail(log))

RECURSIVE Turns(_)
\* one entry per maximal run of fragments of the same role
Turns(log) ==
    IF log = <<>> THEN <<>>
    ELSE LET n == RunLength(log, Head(log).role)
         IN <<[role |-> Head(log).role, text |-> Concat(SubSeq(log, 1, n))]>>
            \o Turns(SubSeq(log, n + 1, Len(log)))

----------------------------------------------------------------------------
(* C1: over a whole run of a session onComplete is invoked exactly once:
   never twice, and once the room has unmounted or the transport has closed
   it has been invoked. *)
C1_OnCompleteExactlyOnce ==
    /\ Len(completions) <= 1
    /\ (~mounted \/ ws = "closed") => Len(completions) = 1

(* C2: a call of handleEndInterview that follows an earlier call is a no-op:
   it does not invoke onComplete and changes no session state. *)
C2_SecondEndIsNoOp ==
    [][(Len(completions) >= 1 /\ EndCall)
         => (completions' = completions
             /\ UNCHANGED <<stateVars, refVars, audioVars>>)]_vars

(* C3: of two consecutive chunks with no stopAllAudio between them, the later
   starts at the end of the earlier if it arrived no later than that end, and
   100 ms after its arrival otherwise. *)
C3_Gapless ==
    \A k \in 1..(Len(sources) - 1) :
        sources[k + 1].epoch = sources[k].epoch =>
            sources[k + 1].start =
                IF sources[k + 1].at <= sources[k].end
                THEN sources[k].end
                ELSE sources[k + 1].at + 100

\* a 0.5 s chunk arrived at t = 0, the next at t = 0.3 s and starts at 0.5 s
C3_Witness ==
    /\ Len(sources) = 2
    /\ sources[1].at = 0 /\ sources[1].start = 0 /\ sources[1].end = 500
    /\ sources[2].at = 300 /\ sources[2].start = 500
    /\ sources[2].epoch = sources[1].epoch

(* C4: the transcript holds one entry per maximal run of fragments of the
   same role, whose text is the run's texts joined: a fragment of the role of
   the last entry extends it, any other fragment appends an entry. *)
C4_Coalescing == transcript = Turns(fragLog)

\* "Hello" then " there", both from the model: one entry "Hello there"
C4_Witness ==
    /\ fragLog = <<[role |-> "model", text |-> "Hello"],
                   [role |-> "model", text |-> " there"]>>
    /\ transcript = <<[role |-> "model", text |-> "Hello there"]>>

(* C5: handling a message with the interruption signal leaves the active
   sources empty, the cursor 0 and isAISpeaking false, and leaves the stream,
   the session handle and the capture callback as they were. *)
C5_Interruption ==
    [][(stopAlls' /= stopAlls /\ \E m \in AudioMessages : m.interrupted /\ Onmessage(m))
         => (/\ activeSourcesRef' = <<>>
             /\ nextStartTimeRef' = 0
             /\ isAISpeaking' = FALSE
             /\ UNCHANGED <<streamRef, sessionRef, mic, ws, micPc,
                            isUserSpeaking, framesSent>>)]_vars

\* an interruption has stopped a scheduled chunk while capture was running
C5_Witness ==
    /\ isInterrupted
    /\ \E i \in DOMAIN sources : sources[i].stopped
    /\ activeSourcesRef = <<>> /\ nextStartTimeRef = 0 /\ ~isAISpeaking
    /\ streamRef /= "null" /\ sessionRef /= "null" /\ micPc = "streaming"

(* C6: once the session has been ended and initInterview has completed, no
   stream, session or audio context is open or referenced. *)
C6_EndReleasesAll ==
    (Len(completions) >= 1 /\ initPc \in {"done", "failed"}) => Released

(* C7: startMicStreaming has run, or a frame has been sent, only after the
   onopen acknowledgement. *)
C7_CaptureAfterOpen ==
    (micPc /= "none" \/ framesSent > 0) => Opened

\* capture was started by onopen
C7_Witness == micPc = "streaming" /\ ws = "open" /\ isConnected

(* C8: at most one of connecting, connected and error holds. *)
C8_SingleValued ==
    /\ ~(isConnecting /\ isConnected)
    /\ error /= NoError => (~isConnected /\ ~isConnecting)

(* C9: an interrupted session that is still open comes back to a state that
   is not interrupted. *)
C9_InterruptedRecovers ==
    (isInterrupted /\ ws = "open") ~> ~isInterrupted

\* what the code does instead: isInterrupted, once set, stays set
IsInterruptedAbsorbing == [][isInterrupted => isInterrupted']_vars

(* C10: the onerror callback sets the error message and tears the session
   down: no session, stream or audio context is kept and isConnected is false. *)
C10_ErrorTearsDown ==
    [][Onerror => (/\ error' = ConnectionLost
                   /\ sessionRef' = "null"
                   /\ streamRef' = "null"
                   /\ audioContextRef' = "null"
                   /\ isConnected' = FALSE)]_vars

\* a chunk scheduled since the last stopAllAudio, of a context still referenced,
\* whose playback has not finished
Pending(i) ==
    /\ audioContextRef /= "null"
    /\ sources[i].epoch = stopAlls
    /\ ~sources[i].stopped
    /\ now < sources[i].end

(* C11: while a scheduled chunk has not finished playing, and no interruption
   or teardown has occurred since it was scheduled, isAISpeaking is true. *)
C11_NoFlicker ==
    (\E i \in DOMAIN sources : Pending(i)) => isAISpeaking


(* C12: of two chunks in the active set, the one that arrived later starts no
   earlier than the scheduled end of the one that arrived earlier: two active
   chunks never overlap. *)
C12_ArrivalOrder ==
    \A i \in Range(activeSourcesRef) : \A j \in Range(activeSourcesRef) :
        i < j => sources[j].start >= sources[i].end

\* two chunks are active, the second queued behind the first while it plays
C12_Witness ==
    /\ activeSourcesRef = <<1, 2>>
    /\ sources[1].end > sources[2].at
    /\ sources[2].start = sources[1].end


(* C13: a transcript update never shortens the list and leaves every entry
   but the last as it was, so an entry followed by another entry is never
   edited again. *)
C13_StableEntries ==
    [][/\ Len(transcript') >= Len(transcript)
       /\ \A i \in 1..(Len(transcript) - 1) : transcript'[i] = transcript[i]]_vars

\* the model spoke, the user answered, the model spoke again in two fragments:
\* the first two entries are as they were appended
C13_Witness ==
    /\ Len(fragLog) = 4
    /\ transcript = <<[role |-> "model", text |-> "Hello"],
                      [role |-> "user", text |-> "Hi"],
                      [role |-> "model", text |-> "Hello there"]>>


(* C14: at every call of onComplete by handleEndInterview the session handle,
   the stream and the audio context have already been released: sessionRef,
   streamRef and audioContextRef are null at the call. *)
C14_TeardownFirst ==
    \A k \in DOMAIN completions : completions[k].refs = ReleasedRefs

\* a connected session with no audio and no text was ended: onComplete got the
\* empty transcript after the transport, the tracks and the context were closed
C14_Witness ==
    /\ Len(completions) = 1
    /\ completions[1] = Completion(<<>>, ReleasedRefs)
    /\ sources = <<>> /\ fragLog = <<>>
    /\ ws = "closing" /\ mic = "stopped" /\ ctx = "closed"


(* C15: every call of onComplete, from the End Interview button, from onclose
   and from the unmount cleanup, passes the transcript accumulated up to that
   moment. *)
C15_FinalTranscript ==
    [][EndCall => Last(completions').history = transcript]_vars


(* C16: when getUserMedia rejects because access to the microphone is denied,
   the error message is set and isConnecting is false, no stream, audio
   context, gain node or transport session exists or is referenced, and
   isConnected is false. *)
C16_NoPartialSession ==
    error = MicDenied =>
        /\ ~isConnecting /\ ~isConnected
        /\ streamRef = "null" /\ mic = "none"
        /\ audioContextRef = "null" /\ ctx = "none"
        /\ gainNodeRef = "null"
        /\ sessionRef = "null" /\ ws = "none"

\* access was denied, and the user then clicked End Interview
C16_Witness ==
    /\ error = MicDenied
    /\ initPc = "failed"
    /\ Len(completions) = 1


(* C17: a message whose audio chunk fails to decode changes neither the
   active sources nor the cursor (but for an interruption signal in the same
   message), sets no error and leaves the session connected; the text of the
   same part is recorded, and after a dropped chunk a chunk that decodes is
   scheduled and a text fragment is recorded as before. *)
C17_BadChunkDropped ==
    [][\A m \in DecodeMessages :
         (Onmessage(m) /\ m.modelTurn /= <<>> /\ audioContextRef /= "null") =>
            LET part == m.modelTurn[1]
                logged == IF part.text = "" THEN fragLog
                          ELSE Append(fragLog, [role |-> "model", text |-> part.text])
            IN /\ part.audio = Undecodable =>
                    /\ Len(sources') = Len(sources)
                    /\ ~m.interrupted =>
                           UNCHANGED <<sources, activeSourcesRef, nextStartTimeRef>>
                    /\ UNCHANGED <<error, isConnected, sessionRef, ws>>
                    /\ fragLog' = logged
               /\ (dropped >= 1 /\ part.audio > 0) =>
                    /\ Len(sources') = Len(sources) + 1
                    /\ fragLog' = logged]_vars

\* a chunk was dropped, a later chunk was scheduled and text was recorded; the
\* session is connected and shows no error
C17_Witness ==
    /\ dropped = 1
    /\ \E i \in DOMAIN sources : sources[i].drops = 1
    /\ fragLog /= <<>>
    /\ isConnected /\ ws = "open" /\ sessionRef /= "null" /\ error = NoError


(* C18: the sample 1.0 is encoded as 32767 and -1.0 as -32767, no sample is
   encoded as -32768, and for a sample s in [-1, 1] the encoded value divided
   by 32767 is within 1/32767 of s. *)
C18_PcmRoundTrip ==
    /\ \A i \in DOMAIN pcmData :
          /\ inputData[i] = SampleDen => pcmData[i] = 32767
          /\ inputData[i] = 0 - SampleDen => pcmData[i] = 0 - 32767
          /\ pcmData[i] /= 0 - 32768
    /\ \A i \in DOMAIN floatData :
          Abs(inputData[i]) <= SampleDen =>
             /\ floatData[i].den = 32767
             /\ Abs(floatData[i].num * SampleDen - inputData[i] * floatData[i].den)
                   * 32767 <= SampleDen * floatData[i].den

\* -1.0 was encoded as -32767 and decoded to -1.0
C18_Witness ==
    /\ inputData = <<0 - SampleDen>>
    /\ pcmData = <<0 - 32767>>
    /\ floatData = <<[num |-> 0 - 32767, den |-> 32767]>>


(* C19: the volume is within [0, 1], and whenever the gain node exists its
   gain is the volume the slider shows, also when the slider was moved before
   initInterview created the node. *)
C19_VolumeTakesEffect ==
    /\ volume \in 0..100
    /\ gainNodeRef /= "null" => gainValue = volume


(* C20: once onopen has fired and the session handle is stored, every capture
   callback sets isUserSpeaking to whether the buffer's mean absolute amplitude
   exceeds 0.01 and sends one encoded frame. *)
C20_CaptureSends ==
    [][\A l \in BOOLEAN :
         (Onaudioprocess(l) /\ sessionRef /= "null" /\ isConnected)
            => (isUserSpeaking' = l /\ framesSent' = framesSent + 1)]_vars

\* what the code does instead: no frame is ever sent and the flag never set
NoFrameEverSent == framesSent = 0 /\ ~isUserSpeaking


(* C21: a call of handleEndInterview leaves playback as stopAllAudio does: the
   active sources empty, the cursor 0 and isAISpeaking false. *)
C21_TeardownCancelsPlayback ==
    [][EndCall => (/\ activeSourcesRef' = <<>>
                   /\ nextStartTimeRef' = 0
                   /\ isAISpeaking' = FALSE)]_vars

\* what the code does instead: handleEndInterview leaves the scheduler as it was
EndLeavesPlayback ==
    [][EndCall => UNCHANGED <<activeSourcesRef, nextStartTimeRef, isAISpeaking,
                              sources>>]_vars


(* C22: over any sequence of handleEndInterview calls of one session, the
   session's close, the tracks' stop and the audio context's close are each
   called at most once. *)
C22_NoDoubleRelease ==
    /\ releases.session <= 1
    /\ releases.stream <= 1
    /\ releases.context <= 1

\* handleEndInterview ran three times on a session that had connected, and
\* released each resource once
C22_Witness ==
    /\ Len(completions) >= 3
    /\ releases = [session |-> 1, stream |-> 1, context |-> 1]


\* the integer nearest to p / q (q > 0), a half rounded up as Math.round does
Round(p, q) == (2 * p + q) \div (2 * q)

(* C23: the 16-bit value the capture callback produces for a sample s is
   round(clamp(s, -1, 1) * 32767). *)
C23_RoundsToNearest ==
    \A i \in DOMAIN pcmData :
        pcmData[i] = Round(Clamp(inputData[i]) * 32767, SampleDen)

\* what the code does instead: the fraction is dropped, towards zero
EncodingTruncates ==
    \A i \in DOMAIN pcmData :
        LET scaled == Clamp(inputData[i]) * 32767
        IN /\ Abs(pcmData[i]) * SampleDen <= Abs(scaled)
           /\ Abs(scaled) < (Abs(pcmData[i]) + 1) * SampleDen


(* C24: no two adjacent transcript entries have the same role, whatever the
   order in which user and model fragments arrive. *)
C24_RolesAlternate ==
    \A i \in 1..(Len(transcript) - 1) :
        transcript[i].role /= transcript[i + 1].role

\* four fragments, two of them consecutive fragments of the user, gave three
\* entries of alternating roles
C24_Witness ==
    /\ Len(fragLog) = 4
    /\ \E k \in 1..3 : fragLog[k].role = "user" /\ fragLog[k + 1].role = "user"
    /\ Len(transcript) = 3
    /\ transcript[1].role = "model" /\ transcript[2].role = "user"
    /\ transcript[3].role = "model"


\* a call of App.handleInterviewComplete: onComplete of either room
CompleteCall == EndCall \/ TimerFired

(* C25: handleInterviewComplete runs, and App enters 'feedback', only while
   App is in 'interviewing' or 'live-interview': never in 'input' and never
   when it is in 'feedback' already. *)
C25_FeedbackOnlyFromInterview ==
    [][CompleteCall => appState \in {"interviewing", "live-interview"}]_vars

\* the number of user entries in a history
UserEntries(h) == Cardinality({i \in DOMAIN h : h[i].role = "user"})

(* C26: in chat mode at most one completion is ever scheduled or made, further
   answers after the closing message schedule none, and a completion carries
   an answer to every question. *)
C26_ChatCompletesOnce ==
    /\ Len(timers) + Len(chatCompletions) <= 1
    /\ \A i \in DOMAIN chatCompletions : UserEntries(chatCompletions[i]) >= questions

\* history starts with the greeting and alternates model, user, model, ...,
\* and currentQuestionIndex is an index of questions
ChatShape ==
    /\ history /= <<>> /\ history[1] = Greeting
    /\ \A i \in DOMAIN history :
          history[i].role = IF i % 2 = 1 THEN "model" ELSE "user"
    /\ currentQuestionIndex <= questions - 1

(* C27: a submission with a blank answer or made while isProcessing is true
   changes nothing; history starts with the greeting and alternates model,
   user, model, ...; currentQuestionIndex rises by one exactly when a
   non-final answer is replied to, and never exceeds questions.length - 1. *)
C27_ChatDiscipline ==
    /\ ChatShape
    /\ [][/\ (HandleAnswerSubmit /\ (Trim(userAnswer) = "" \/ isProcessing))
               => UNCHANGED <<history, submits, isProcessing, currentQuestionIndex>>
          /\ ChatShape'
          /\ currentQuestionIndex' =
                IF \E k \in DOMAIN submits : AIResponded(k) /\ ~submits[k].final
                THEN currentQuestionIndex + 1 ELSE currentQuestionIndex]_vars

\* what holds: with at least one question, C27 as stated
ChatDisciplineWithQuestions ==
    /\ questions >= 1 => ChatShape
    /\ [][/\ (HandleAnswerSubmit /\ (Trim(userAnswer) = "" \/ isProcessing))
               => UNCHANGED <<history, submits, isProcessing, currentQuestionIndex>>
          /\ currentQuestionIndex' =
                IF \E k \in DOMAIN submits : AIResponded(k) /\ ~submits[k].final
                THEN currentQuestionIndex + 1 ELSE currentQuestionIndex]_vars

====
